---- MODULE Spec2Model ----
(***************************************************************************)
(* Two-phase Simplex solver (src/solvers.py) fed by the model parser       *)
(* (src/parser.py).                                                        *)
(*                                                                         *)
(* Numbers: the program computes in IEEE doubles; the model computes in    *)
(* exact rationals <<numerator, denominator>> (denominator > 0, lowest     *)
(* terms).  The tolerances 1e-9 (and numpy's isclose atol 1e-8) are kept   *)
(* as exact rationals.  Indices are 1-based here and 0-based in the        *)
(* source: column j of the source is column j+1 of the model.              *)
(***************************************************************************)
EXTENDS Integers, Sequences, FiniteSets, TLC

(***************************************************************************)
(* Bounds of the model.                                                    *)
(***************************************************************************)
\* number of solve() invocations made on one problem descriptor
MaxCalls == 2
\* largest right-hand side written in a model file
MaxRhs == 1

(***************************************************************************)
(* Rational arithmetic.                                                    *)
(***************************************************************************)
Abs(x) == IF x < 0 THEN -x ELSE x

RECURSIVE GCD(_, _)
GCD(a, b) == IF b = 0 THEN a ELSE GCD(b, a % b)

Rat(n, d) ==
  LET g == GCD(Abs(n), Abs(d))
      s == IF d < 0 THEN -1 ELSE 1
  IN  <<(s * n) \div g, (s * d) \div g>>

Float(i) == <<i, 1>>
Zero == Float(0)
One == Float(1)
RNeg(x) == <<-x[1], x[2]>>
\* equal denominators are added as they are, which keeps the intermediate
\* integers small
RAdd(x, y) ==
  IF x[2] = y[2] THEN Rat(x[1] + y[1], x[2])
  ELSE Rat(x[1] * y[2] + y[1] * x[2], x[2] * y[2])
RSub(x, y) == RAdd(x, RNeg(y))
RMul(x, y) == Rat(x[1] * y[1], x[2] * y[2])
RDiv(x, y) == Rat(x[1] * y[2], x[2] * y[1])
RLt(x, y) == x[1] * y[2] < y[1] * x[2]
RLe(x, y) == x[1] * y[2] <= y[1] * x[2]
RAbs(x) == <<Abs(x[1]), x[2]>>

\* 1e-9 is 1/TolDen; numpy.isclose(x, 0) is |x| <= 1e-8 = 1/CloseDen
TolDen == 1000000000
CloseDen == 100000000

\* x > 1/den, computed without forming x[1] * den
GtInv(x, den) == x[1] > 0 /\ den > x[2] \div x[1]
\* x > 1e-9
GtTol(x) == GtInv(x, TolDen)
\* x < 1e-9
LtTol(x) == x[1] <= 0 \/ (x[2] \div x[1] > TolDen) \/ (x[2] \div x[1] = TolDen /\ x[2] % x[1] # 0)
\* numpy.isclose(x, 0)
IsClose0(x) == ~GtInv(RAbs(x), CloseDen)

\* the member of a one-element set
Only(S) == CHOOSE x \in S : TRUE

(***************************************************************************)
(* Vectors are sequences of rationals, matrices sequences of rows.         *)
(***************************************************************************)
\* the sequence <<f[1], ..., f[n]>>
Vec(n, f) == IF n = 0 THEN <<>> ELSE f \o <<>>

RECURSIVE SumSeq(_)
SumSeq(s) == IF s = <<>> THEN Zero ELSE RAdd(s[1], SumSeq(Tail(s)))

\* numpy's u @ v for two vectors of the same length
Dot(u, v) == SumSeq(Vec(Len(u), [k \in 1..Len(u) |-> RMul(u[k], v[k])]))

Column(M, j) == Vec(Len(M), [i \in 1..Len(M) |-> M[i][j]])
\* M[:, idx]
Columns(M, idx) == Vec(Len(M), [i \in 1..Len(M) |-> Vec(Len(idx), [k \in 1..Len(idx) |-> M[i][idx[k]]])])
\* M @ v
MatVec(M, v) == Vec(Len(M), [i \in 1..Len(M) |-> Dot(M[i], v)])
\* v @ M
VecMat(v, M) == IF M = <<>> THEN <<>> ELSE Vec(Len(M[1]), [j \in 1..Len(M[1]) |-> Dot(v, Column(M, j))])

FloatVec(v) == Vec(Len(v), [k \in 1..Len(v) |-> Float(v[k])])
FloatMat(M) == Vec(Len(M), [i \in 1..Len(M) |-> FloatVec(M[i])])

\* the members of a set of integers in increasing order
RECURSIVE SortedSeq(_)
SortedSeq(S) ==
  IF S = {} THEN <<>>
  ELSE LET lo == CHOOSE x \in S : \A y \in S : x <= y
       IN  <<lo>> \o SortedSeq(S \ {lo})

Range(s) == {s[k] : k \in 1..Len(s)}

\* the last position of the largest value
ArgMaxLast(v) == CHOOSE k \in 1..Len(v) :
                   /\ \A j \in 1..Len(v) : RLe(v[j], v[k])
                   /\ \A j \in (k + 1)..Len(v) : RLt(v[j], v[k])

\* numpy.argmax / numpy.argmin: the first position of the extreme value
ArgMax(v) == CHOOSE k \in 1..Len(v) :
               /\ \A j \in 1..Len(v) : RLe(v[j], v[k])
               /\ \A j \in 1..(k - 1) : RLt(v[j], v[k])

\* numpy.all(v <= 1e-9)
AllLeTol(v) == \A k \in 1..Len(v) : ~GtTol(v[k])

(***************************************************************************)
(* parser.py: the model file, already split into its terms, is turned into *)
(* the descriptor the solver consumes.  A model file is                    *)
(*   [is_min, obj, rows, rhs, signs, domain]                               *)
(* with one coefficient per original variable x1..xn in the objective and  *)
(* in every constraint row, and a domain declaration per variable.         *)
(***************************************************************************)
Width(t) == IF t = "free" THEN 2 ELSE 1

RECURSIVE ColsBefore(_, _)
ColsBefore(domain, v) ==
  IF v = 1 THEN 0 ELSE ColsBefore(domain, v - 1) + Width(domain[v - 1])

simplex_vars_map(domain) ==
  Vec(Len(domain), [v \in 1..Len(domain) |-> LET col == ColsBefore(domain, v) + 1
     IN  IF domain[v] = "free"
           THEN [type |-> "free", cols_parser |-> <<col, col + 1>>, mult |-> 1]
         ELSE IF domain[v] = "negative"
           THEN [type |-> "negative", cols_parser |-> <<col>>, mult |-> -1]
         ELSE [type |-> "non_negative", cols_parser |-> <<col>>, mult |-> 1]])

num_simplex_vars(domain) == ColsBefore(domain, Len(domain) + 1)

\* the coefficients of one expression over the original variables, spread
\* over the columns of the Simplex variables
row_coeffs(coefs, domain) ==
  LET map == simplex_vars_map(domain)
  IN  Vec(num_simplex_vars(domain), [j \in 1..num_simplex_vars(domain) |-> LET v == CHOOSE u \in 1..Len(domain) : j \in Range(map[u].cols_parser)
         IN  IF map[v].type = "free"
               THEN IF j = map[v].cols_parser[1] THEN coefs[v] ELSE -coefs[v]
               ELSE coefs[v] * map[v].mult])

c_transformed(model) ==
  LET cmax == row_coeffs(model.obj, model.domain)
  IN  IF model.is_min THEN Vec(Len(cmax), [j \in 1..Len(cmax) |-> -cmax[j]]) ELSE cmax

interpretation_info_of(model) ==
  [sorted_original_vars |-> Vec(Len(model.domain), [v \in 1..Len(model.domain) |-> v]),
   simplex_vars_map |-> simplex_vars_map(model.domain)]

parse_model_from_txt(model) ==
  [c |-> c_transformed(model),
   A |-> Vec(Len(model.rows), [i \in 1..Len(model.rows) |-> row_coeffs(model.rows[i], model.domain)]),
   b |-> model.rhs,
   signs |-> model.signs,
   was_min |-> model.is_min,
   interpretation_info |-> interpretation_info_of(model)]

\* interpretation_info=None
None == [sorted_original_vars |-> <<>>, simplex_vars_map |-> <<>>]

(***************************************************************************)
(* The model files the solver is run on.                                   *)
(***************************************************************************)
VarCounts == {1}
RowCounts == {1, 2}
Relations == {"<=", ">=", "="}
Domains == {"non_negative", "negative", "free"}
ObjCoefs == {1}
RowCoefs == {1}
RhsVals == -1..MaxRhs
Methods == {"revised", "tabular", "dual"}

SeqsOf(S, n) == [1..n -> S]

Models ==
  UNION {
    [is_min : BOOLEAN, obj : SeqsOf(ObjCoefs, n), rows : SeqsOf(SeqsOf(RowCoefs, n), r),
     rhs : SeqsOf(RhsVals, r), signs : SeqsOf(Relations, r), domain : SeqsOf(Domains, n)]
    : n \in VarCounts, r \in RowCounts }

(***************************************************************************)
(* State: the model file, the fields of the Simplex object, the locals of  *)
(* the running solve() call, and the record of the finished calls.         *)
(***************************************************************************)
VARIABLES txt, c_parser_vars, A_parser_vars, b_orig, signs, was_min,
          interpretation_info, A, c, b, num_vars,
          pc, method, A_phase, c_phase, basic_indices, artificial_indices,
          tableau, iter, result, result_phase1, entry_signs, calls

object == <<txt, c_parser_vars, A_parser_vars, b_orig, was_min, interpretation_info>>
derived == <<A, c, b, num_vars>>
engine == <<A_phase, c_phase, basic_indices, artificial_indices, tableau, iter>>
vars == <<txt, c_parser_vars, A_parser_vars, b_orig, signs, was_min,
          interpretation_info, A, c, b, num_vars,
          pc, method, A_phase, c_phase, basic_indices, artificial_indices,
          tableau, iter, result, result_phase1, entry_signs, calls>>

m == Len(A_parser_vars)
n_parser_vars == Len(A_parser_vars[1])

\* a result dictionary; keys a status does not carry are empty
Result(status) ==
  [status |-> status, solution |-> <<>>, value |-> <<>>,
   is_degenerate |-> FALSE, has_multiple_solutions |-> FALSE,
   final_basis_indices |-> <<>>, tableau |-> <<>>]

NoResult == Result("none")

\* Simplex.__init__ on the parser's dictionary; the interpretation info is
\* optional, and is left out here only for models whose variables are all
\* non-negative
Init ==
  \E model \in Models, with_info \in BOOLEAN :
    LET d == parse_model_from_txt(model)
    IN  /\ with_info \/ \A v \in 1..Len(model.domain) : model.domain[v] = "non_negative"
        /\ txt = model
        /\ c_parser_vars = FloatVec(d.c)
        /\ A_parser_vars = FloatMat(d.A)
        /\ b_orig = FloatVec(d.b)
        /\ signs = d.signs
        /\ was_min = d.was_min
        /\ interpretation_info = IF with_info THEN d.interpretation_info ELSE None
        /\ A = <<>>
        /\ c = <<>>
        /\ b = <<>>
        /\ num_vars = 0
        /\ pc = "idle"
        /\ method = "none"
        /\ A_phase = <<>>
        /\ c_phase = <<>>
        /\ basic_indices = <<>>
        /\ artificial_indices = <<>>
        /\ tableau = <<>>
        /\ iter = 0
        /\ result = NoResult
        /\ result_phase1 = NoResult
        /\ entry_signs = d.signs
        /\ calls = <<>>

(***************************************************************************)
(* Simplex._prepare_problem                                                *)
(***************************************************************************)
Flip(sign) == IF sign = "<=" THEN ">=" ELSE IF sign = ">=" THEN "<=" ELSE sign

\* lines 45-53: b made non-negative, the rows negated with it, and the
\* relation of each such row flipped in self.signs
prepared_b(b0) == Vec(Len(b0), [i \in 1..Len(b0) |-> IF RLt(b0[i], Zero) THEN RNeg(b0[i]) ELSE b0[i]])

temp_A(A0, b0) ==
  Vec(Len(A0), [i \in 1..Len(A0) |-> IF RLt(b0[i], Zero) THEN Vec(Len(A0[i]), [j \in 1..Len(A0[i]) |-> RNeg(A0[i][j])]) ELSE A0[i]])

\* the flip written for <= rows only
prepared_signs_one_way(sg, b0) ==
  Vec(Len(sg), [i \in 1..Len(sg) |-> IF RLt(b0[i], Zero) /\ sg[i] = "<=" THEN ">=" ELSE sg[i]])

prepared_signs(sg, b0) ==
  Vec(Len(sg), [i \in 1..Len(sg) |-> IF RLt(b0[i], Zero) THEN Flip(sg[i]) ELSE sg[i]])

\* lines 56-57
prepared_num_vars(n, sg) == n + Cardinality({i \in 1..Len(sg) : sg[i] # "="})

\* lines 66-73: the column slack_ptr points at when row i is visited
slack_ptr(n, sg, i) == n + Cardinality({k \in 1..i : sg[k] # "="})

\* lines 60-61 and 66-73
prepared_A(tA, sg) ==
  LET n == Len(tA[1])
  IN  Vec(Len(tA), [i \in 1..Len(tA) |-> Vec(prepared_num_vars(n, sg), [j \in 1..prepared_num_vars(n, sg) |-> IF j <= n THEN tA[i][j]
            ELSE IF sg[i] = "<=" /\ j = slack_ptr(n, sg, i) THEN One
            ELSE IF sg[i] = ">=" /\ j = slack_ptr(n, sg, i) THEN RNeg(One)
            ELSE Zero])])

\* lines 62-63
prepared_c(c0, sg) ==
  Vec(prepared_num_vars(Len(c0), sg), [j \in 1..prepared_num_vars(Len(c0), sg) |-> IF j <= Len(c0) THEN c0[j] ELSE Zero])

\* solve(method), line 94: the standard form is built first
Solve(meth) ==
  /\ pc = "idle"
  /\ Len(calls) < MaxCalls
  /\ method' = meth
  /\ entry_signs' = signs
  /\ b' = prepared_b(b_orig)
  /\ signs' = prepared_signs(signs, b_orig)
  /\ num_vars' = prepared_num_vars(n_parser_vars, signs')
  /\ A' = prepared_A(temp_A(A_parser_vars, b_orig), signs')
  /\ c' = prepared_c(c_parser_vars, signs')
  /\ result' = NoResult
  /\ pc' = "dispatch"
  /\ UNCHANGED <<object, engine, result_phase1, calls>>

(***************************************************************************)
(* The basis inverse of the revised engine (scipy.linalg.inv), as the      *)
(* adjugate over the determinant; inv raises LinAlgError exactly when the  *)
(* matrix is singular.                                                     *)
(***************************************************************************)
Minor(M, r, q) ==
  Vec(Len(M) - 1, [i \in 1..(Len(M) - 1) |-> Vec(Len(M) - 1, [j \in 1..(Len(M) - 1) |-> M[IF i < r THEN i ELSE i + 1][IF j < q THEN j ELSE j + 1]])])

RECURSIVE Det(_)
Det(M) ==
  IF Len(M) = 0 THEN One
  ELSE SumSeq(Vec(Len(M), [j \in 1..Len(M) |->
         Only({IF j % 2 = 1 THEN RMul(M[1][j], minor) ELSE RNeg(RMul(M[1][j], minor)) :
                 minor \in {Det(Minor(M, 1, j))}})]))

inv(M) ==
  Only({Vec(Len(M), [i \in 1..Len(M) |-> Vec(Len(M), [j \in 1..Len(M) |->
          Only({IF (i + j) % 2 = 0 THEN RDiv(minor, det) ELSE RNeg(RDiv(minor, det)) :
                  minor \in {Det(Minor(M, j, i))}})])]) :
          det \in {Det(M)}})

(***************************************************************************)
(* Simplex._revised_simplex_engine: one pass of the loop body on           *)
(* (A, b, c) with the basis held in basic_indices.                         *)
(***************************************************************************)
\* a cap without the factor two
iteration_limit_undoubled(rows, columns) == rows * columns

\* lines 201 and 364: the iteration limit of both engines
iteration_limit(rows, columns) == rows * columns * 2

non_basic_indices(nv, basis) == SortedSeq((1..nv) \ Range(basis))

\* sol = zeros; sol[basic_indices] = values
scatter(nv, basis, values) ==
  Vec(nv, [j \in 1..nv |-> IF j \in Range(basis)
       THEN values[CHOOSE k \in 1..Len(basis) :
                     basis[k] = j /\ \A l \in (k + 1)..Len(basis) : basis[l] # j]
       ELSE Zero])

\* a ratio test that looks at the basic values only: the first row with the
\* smallest one
leaving_row_by_value(xb, d) ==
  CHOOSE i \in 1..Len(d) :
    /\ \A j \in 1..Len(d) : RLe(xb[i], xb[j])
    /\ \A j \in 1..(i - 1) : RLt(xb[i], xb[j])

\* lines 231-232 and 401-402: the ratio test, numpy.argmin over the ratios
\* with infinity where the direction entry is not above 1e-9
leaving_row(xb, d) ==
  IF \A i \in 1..Len(d) : ~GtTol(d[i]) THEN 1
  ELSE CHOOSE i \in 1..Len(d) :
         /\ GtTol(d[i])
         /\ \A j \in 1..Len(d) : GtTol(d[j]) => RLe(RDiv(xb[i], d[i]), RDiv(xb[j], d[j]))
         /\ \A j \in 1..(i - 1) : GtTol(d[j]) => RLt(RDiv(xb[i], d[i]), RDiv(xb[j], d[j]))

\* lines 208-212
revised_cj_zj(Am, cv, basis) ==
  LET nb == non_basic_indices(Len(cv), basis)
      c_b == Vec(Len(basis), [k \in 1..Len(basis) |-> cv[basis[k]]])
  IN  Only({Vec(Len(nb), [k \in 1..Len(nb) |-> RSub(cv[nb[k]], Dot(y, Column(Am, nb[k])))]) :
              y \in {VecMat(c_b, B_inv) : B_inv \in {inv(Columns(Am, basis))}}})

\* line 224
revised_entering(Am, cv, basis) ==
  non_basic_indices(Len(cv), basis)[ArgMax(revised_cj_zj(Am, cv, basis))]

\* line 225
revised_direction(Am, cv, basis) ==
  Only({MatVec(B_inv, Column(Am, entering_idx)) :
          B_inv \in {inv(Columns(Am, basis))},
          entering_idx \in {revised_entering(Am, cv, basis)}})

\* line 210
revised_x_b(Am, bv, basis) ==
  Only({MatVec(B_inv, bv) : B_inv \in {inv(Columns(Am, basis))}})

\* the outcome of one loop pass: [done, result, basis]
revised_pass(Am, bv, cv, basis, it) ==
  IF it >= iteration_limit(Len(Am), Len(cv))
    THEN [done |-> TRUE, result |-> Result("max_iterations_reached"), basis |-> basis]
  ELSE IF Det(Columns(Am, basis)) = Zero
    THEN [done |-> TRUE, result |-> Result("error_singular_matrix"), basis |-> basis]
  ELSE
    LET x_b == revised_x_b(Am, bv, basis)
        c_b == Vec(Len(basis), [k \in 1..Len(basis) |-> cv[basis[k]]])
        cj_zj == revised_cj_zj(Am, cv, basis)
    IN  IF AllLeTol(cj_zj)
          THEN [done |-> TRUE,
                result |-> [status |-> "optimal",
                            solution |-> scatter(Len(cv), basis, x_b),
                            value |-> Dot(c_b, x_b),
                            is_degenerate |-> \E k \in 1..Len(x_b) : IsClose0(x_b[k]),
                            has_multiple_solutions |->
                              \E k \in 1..Len(cj_zj) : IsClose0(cj_zj[k]),
                            final_basis_indices |-> basis,
                            tableau |-> <<>>],
                basis |-> basis]
        ELSE IF AllLeTol(revised_direction(Am, cv, basis))
          THEN [done |-> TRUE, result |-> Result("unbounded"), basis |-> basis]
        ELSE [done |-> FALSE, result |-> NoResult,
              basis |-> [basis EXCEPT ![leaving_row(x_b, revised_direction(Am, cv, basis))] =
                                        revised_entering(Am, cv, basis)]]

(***************************************************************************)
(* Simplex._run_phase1_revised                                             *)
(***************************************************************************)
artificial_rows(sg) == {i \in 1..Len(sg) : sg[i] \in {">=", "="}}

\* line 149
slack_indices(n, sg) ==
  LET rows == SortedSeq({i \in 1..Len(sg) : sg[i] # "="})
  IN  Vec(Len(rows), [k \in 1..Len(rows) |-> n + rows[k]])

\* lines 160-166: the artificial column of row i
art_ptr(width, sg, i) == width + Cardinality({k \in 1..i : sg[k] \in {">=", "="}})

\* lines 161-169: the column taken as the basic variable of a <= row
revised_slack_ptr(n, sg, i) == n + Cardinality({k \in 1..i : sg[k] = "<="})

\* lines 154 and 164
A_phase1(Am, sg) ==
  LET width == Len(Am[1])
      total == width + Cardinality(artificial_rows(sg))
  IN  Vec(Len(Am), [i \in 1..Len(Am) |-> Vec(total, [j \in 1..total |-> IF j <= width THEN Am[i][j]
            ELSE IF i \in artificial_rows(sg) /\ j = art_ptr(width, sg, i) THEN One
            ELSE Zero])])

\* lines 155-156
c_phase1(width, sg) ==
  Vec(width + Cardinality(artificial_rows(sg)), [j \in 1..(width + Cardinality(artificial_rows(sg))) |-> IF j <= width THEN Zero ELSE RNeg(One)])

\* lines 159-169
initial_base_phase1(n, width, sg) ==
  Vec(Len(sg), [i \in 1..Len(sg) |-> IF i \in artificial_rows(sg) THEN art_ptr(width, sg, i)
     ELSE revised_slack_ptr(n, sg, i)])

\* _solve_revised line 122 and _run_phase1_revised lines 146-171: with no
\* artificial row the slack basis goes straight to Phase 2 (line 129)
RunPhase1Revised ==
  /\ pc = "dispatch"
  /\ method = "revised"
  /\ IF artificial_rows(signs) = {}
       THEN /\ pc' = "phase2"
            /\ A_phase' = A
            /\ c_phase' = c
            /\ basic_indices' = slack_indices(n_parser_vars, signs)
       ELSE /\ pc' = "phase1"
            /\ A_phase' = A_phase1(A, signs)
            /\ c_phase' = c_phase1(num_vars, signs)
            /\ basic_indices' = initial_base_phase1(n_parser_vars, num_vars, signs)
  /\ iter' = 0
  /\ UNCHANGED <<object, signs, derived, method, artificial_indices, tableau,
                 result, result_phase1, entry_signs, calls>>

\* one pass of the loop of _revised_simplex_engine, in either phase
RevisedEngineStep ==
  /\ pc \in {"phase1", "phase2"}
  /\ method = "revised"
  /\ LET pass == revised_pass(A_phase, b, c_phase, basic_indices, iter)
     IN  IF pass.done
           THEN /\ result' = pass.result
                /\ pc' = IF pc = "phase1" THEN "after_phase1" ELSE "format"
                /\ UNCHANGED <<basic_indices, iter>>
           ELSE /\ basic_indices' = pass.basis
                /\ iter' = iter + 1
                /\ UNCHANGED <<result, pc>>
  /\ UNCHANGED <<object, signs, derived, method, A_phase, c_phase,
                 artificial_indices, tableau, result_phase1, entry_signs, calls>>

\* line 174
phase1_failed(res) ==
  res.status # "optimal" \/ GtTol(RAbs(res.value))

\* line 180
artificial_in_basis(basis, width) == \E k \in 1..Len(basis) : basis[k] > width

\* _run_phase1_revised lines 173-183 and _solve_revised lines 123-129
Phase1DecideRevised ==
  /\ pc = "after_phase1"
  /\ method = "revised"
  /\ IF phase1_failed(result)
       THEN /\ result' = Result("infeasible")
            /\ pc' = "format"
            /\ UNCHANGED <<A_phase, c_phase, basic_indices, iter>>
     ELSE IF artificial_in_basis(result.final_basis_indices, num_vars)
       THEN /\ result' = Result("error_redundant_constraint")
            /\ pc' = "format"
            /\ UNCHANGED <<A_phase, c_phase, basic_indices, iter>>
     ELSE /\ result' = NoResult
          /\ pc' = "phase2"
          /\ A_phase' = A
          /\ c_phase' = c
          /\ basic_indices' = result.final_basis_indices
          /\ iter' = 0
  /\ result_phase1' = [result EXCEPT !.tableau = <<>>]
  /\ UNCHANGED <<object, signs, derived, method, artificial_indices, tableau,
                 entry_signs, calls>>

(***************************************************************************)
(* Simplex._tabular_simplex_engine: one pass of the loop body on the       *)
(* tableau (last column the right-hand side) with the basis held in        *)
(* basic_indices and the cost vector c_original.                           *)
(***************************************************************************)
rhs(tab) == Column(tab, Len(tab[1]))

\* lines 366-371
tabular_cj_zj(tab, basis, cv) ==
  LET cb == Vec(Len(basis), [k \in 1..Len(basis) |-> cv[basis[k]]])
  IN  Vec(Len(cv), [j \in 1..Len(cv) |-> IF j \in Range(basis) THEN Zero ELSE RSub(cv[j], Dot(cb, Column(tab, j)))])

\* the first column with the smallest reduced cost
entering_col_smallest(tab, basis, cv) ==
  LET v == tabular_cj_zj(tab, basis, cv)
  IN  CHOOSE k \in 1..Len(v) :
        /\ \A j \in 1..Len(v) : RLe(v[k], v[j])
        /\ \A j \in 1..(k - 1) : RLt(v[k], v[j])

\* line 394
entering_col(tab, basis, cv) == ArgMax(tabular_cj_zj(tab, basis, cv))

\* lines 409-412
pivot(tab, row, col) ==
  LET prow == Vec(Len(tab[row]), [j \in 1..Len(tab[row]) |-> RDiv(tab[row][j], tab[row][col])])
  IN  Vec(Len(tab), [i \in 1..Len(tab) |-> IF i = row THEN prow
        ELSE Vec(Len(tab[i]), [j \in 1..Len(tab[i]) |-> RSub(tab[i][j], RMul(tab[i][col], prow[j]))])])

\* the outcome of one loop pass: [done, result, basis, tableau]
tabular_pass(tab, basis, cv, it) ==
  LET nv == Len(tab[1]) - 1
      cb == Vec(Len(basis), [k \in 1..Len(basis) |-> cv[basis[k]]])
      cj_zj == tabular_cj_zj(tab, basis, cv)
      col == entering_col(tab, basis, cv)
      row == leaving_row(rhs(tab), Column(tab, col))
      stop(res) == [done |-> TRUE, result |-> res, basis |-> basis, tableau |-> tab]
  IN  IF it >= iteration_limit(Len(tab), nv)
        THEN stop(Result("max_iterations_reached"))
      ELSE IF AllLeTol(cj_zj)
        THEN LET solution == scatter(nv, basis, rhs(tab))
             IN  stop([status |-> "optimal",
                       solution |-> solution,
                       value |-> Dot(cb, Vec(Len(basis), [k \in 1..Len(basis) |-> solution[basis[k]]])),
                       is_degenerate |-> \E i \in 1..Len(tab) : IsClose0(rhs(tab)[i]),
                       has_multiple_solutions |->
                         \E j \in (1..nv) \ Range(basis) : IsClose0(cj_zj[j]),
                       final_basis_indices |-> basis,
                       tableau |-> tab])
      ELSE IF AllLeTol(Column(tab, col))
        THEN stop(Result("unbounded"))
      ELSE IF LtTol(RAbs(tab[row][col]))
        THEN stop(Result("error_numerical_instability"))
      ELSE [done |-> FALSE, result |-> NoResult,
            basis |-> [basis EXCEPT ![row] = col],
            tableau |-> pivot(tab, row, col)]

(***************************************************************************)
(* Simplex._build_and_run_phase1_tabular                                   *)
(***************************************************************************)
\* lines 283-311
phase1_tableau(Am, bv, n, nv, sg) ==
  LET width == nv + Cardinality(artificial_rows(sg)) + 1
  IN  Vec(Len(Am), [i \in 1..Len(Am) |-> Vec(width, [j \in 1..width |-> IF j = width THEN bv[i]
          ELSE IF j <= n THEN Am[i][j]
          ELSE IF sg[i] = "<=" /\ j = slack_ptr(n, sg, i) THEN One
          ELSE IF sg[i] = ">=" /\ j = slack_ptr(n, sg, i) THEN RNeg(One)
          ELSE IF sg[i] # "<=" /\ j = art_ptr(nv, sg, i) THEN One
          ELSE Zero])])

\* lines 288 and 297-311
phase1_basic_indices(n, nv, sg) ==
  Vec(Len(sg), [i \in 1..Len(sg) |-> IF sg[i] = "<=" THEN slack_ptr(n, sg, i) ELSE art_ptr(nv, sg, i)])

\* lines 289 and 309
phase1_artificial_indices(nv, sg) ==
  LET rows == SortedSeq({i \in 1..Len(sg) : sg[i] # "<="})
  IN  Vec(Len(rows), [k \in 1..Len(rows) |-> art_ptr(nv, sg, rows[k])])

\* _solve_tabular line 254 and _build_and_run_phase1_tabular lines 279-311
BuildPhase1Tabular ==
  /\ pc = "dispatch"
  /\ method = "tabular"
  /\ tableau' = phase1_tableau(A, b, n_parser_vars, num_vars, signs)
  /\ basic_indices' = phase1_basic_indices(n_parser_vars, num_vars, signs)
  /\ artificial_indices' = phase1_artificial_indices(num_vars, signs)
  /\ c_phase' = c_phase1(num_vars, signs)
  /\ iter' = 0
  /\ pc' = "phase1"
  /\ UNCHANGED <<object, signs, derived, method, A_phase, result, result_phase1,
                 entry_signs, calls>>

\* one pass of the loop of _tabular_simplex_engine, in either phase
TabularEngineStep ==
  /\ pc \in {"phase1", "phase2"}
  /\ method = "tabular"
  /\ LET pass == tabular_pass(tableau, basic_indices, c_phase, iter)
     IN  IF pass.done
           THEN /\ result' = pass.result
                /\ pc' = IF pc = "phase1" THEN "after_phase1" ELSE "format"
                /\ UNCHANGED <<basic_indices, tableau, iter>>
           ELSE /\ basic_indices' = pass.basis
                /\ tableau' = pass.tableau
                /\ iter' = iter + 1
                /\ UNCHANGED <<result, pc>>
  /\ UNCHANGED <<object, signs, derived, method, A_phase, c_phase,
                 artificial_indices, result_phase1, entry_signs, calls>>

(***************************************************************************)
(* Simplex._prepare_phase2_tableau                                         *)
(***************************************************************************)
\* line 338
cols_to_keep(tab, art) == SortedSeq((1..(Len(tab[1]) - 1)) \ Range(art))

\* line 339
phase2_tableau(tab, art) == Columns(tab, cols_to_keep(tab, art) \o <<Len(tab[1])>>)

\* lines 342-343; a basic index that is an artificial column has no entry
\* in map_old_to_new and the lookup raises KeyError
new_basic_indices(tab, basis, art) ==
  LET keep == cols_to_keep(tab, art)
  IN  Vec(Len(basis), [k \in 1..Len(basis) |-> CHOOSE new \in 1..Len(keep) : keep[new] = basis[k]])

\* the record of a finished call: the relations the call found in the
\* descriptor, the result of the Phase-1 engine run, the result handed to
\* _format_final_solution, how the call ended ("return" or the exception
\* raised) and what it returned
Call(p1, raw, outcome, ret) ==
  [method |-> method, signs_in |-> entry_signs,
   phase1 |-> [p1 EXCEPT !.tableau = <<>>],
   raw |-> [raw EXCEPT !.tableau = <<>>],
   outcome |-> outcome, ret |-> [ret EXCEPT !.tableau = <<>>]]

\* the locals of solve() are gone once it has returned or raised
Finish(p1, raw, outcome, ret) ==
  /\ calls' = Append(calls, Call(p1, raw, outcome, ret))
  /\ pc' = "idle"
  /\ result' = NoResult
  /\ result_phase1' = NoResult
  /\ A_phase' = <<>>
  /\ c_phase' = <<>>
  /\ basic_indices' = <<>>
  /\ artificial_indices' = <<>>
  /\ tableau' = <<>>
  /\ iter' = 0
  /\ UNCHANGED <<object, signs, derived, method, entry_signs>>

\* _build_and_run_phase1_tabular lines 316-320 and _solve_tabular lines
\* 255-260
Phase1DecideTabular ==
  /\ pc = "after_phase1"
  /\ method = "tabular"
  /\ IF phase1_failed(result)
       THEN /\ result' = Result("infeasible")
            /\ result_phase1' = [result EXCEPT !.tableau = <<>>]
            /\ pc' = "format"
            /\ UNCHANGED <<c_phase, basic_indices, tableau, iter, calls,
                           artificial_indices, A_phase>>
     ELSE IF \E k \in 1..Len(result.final_basis_indices) :
               result.final_basis_indices[k] \in Range(artificial_indices)
       THEN Finish(result, NoResult, "KeyError", NoResult)
     ELSE /\ result' = NoResult
          /\ result_phase1' = [result EXCEPT !.tableau = <<>>]
          /\ pc' = "phase2"
          /\ tableau' = phase2_tableau(result.tableau, artificial_indices)
          /\ basic_indices' = new_basic_indices(result.tableau,
                                                result.final_basis_indices,
                                                artificial_indices)
          /\ c_phase' = c
          /\ iter' = 0
          /\ UNCHANGED <<calls, artificial_indices, A_phase>>
  /\ UNCHANGED <<object, signs, derived, method, entry_signs>>

\* solve(), lines 100-101: any other method name
RaiseInvalidMethod ==
  /\ pc = "dispatch"
  /\ method \notin {"revised", "tabular"}
  /\ Finish(NoResult, NoResult, "ValueError", NoResult)

(***************************************************************************)
(* Simplex._format_final_solution                                          *)
(***************************************************************************)
\* lines 448-455
ordered_sol(sol_vector, info) ==
  Vec(Len(info.sorted_original_vars), [k \in 1..Len(info.sorted_original_vars) |-> LET var == info.simplex_vars_map[info.sorted_original_vars[k]]
    IN  IF var.type = "free"
          THEN RSub(sol_vector[var.cols_parser[1]], sol_vector[var.cols_parser[2]])
          ELSE RMul(sol_vector[var.cols_parser[1]], Float(var.mult))])

\* line 458; the operands of @ must have the same length
final_value(cp, ordered) == Dot(cp, ordered)

\* lines 460-463
formatted(res, cp, info, wasmin) ==
  LET ordered == ordered_sol(res.solution, info)
      value == final_value(cp, ordered)
  IN  [status |-> "optimal", solution |-> ordered,
       value |-> IF wasmin THEN RNeg(value) ELSE value,
       is_degenerate |-> res.is_degenerate,
       has_multiple_solutions |-> res.has_multiple_solutions,
       final_basis_indices |-> <<>>, tableau |-> <<>>]

\* solve() line 103: the result is formatted and returned
FormatFinalSolution ==
  /\ pc = "format"
  /\ IF result.status # "optimal" \/ interpretation_info = None
       THEN Finish(result_phase1, result, "return", result)
     ELSE IF Len(c_parser_vars) # Len(interpretation_info.sorted_original_vars)
       THEN Finish(result_phase1, result, "ValueError", NoResult)
     ELSE Finish(result_phase1, result, "return",
                 formatted(result, c_parser_vars, interpretation_info, was_min))

Next ==
  \/ \E meth \in Methods : Solve(meth)
  \/ RaiseInvalidMethod
  \/ RunPhase1Revised
  \/ RevisedEngineStep
  \/ Phase1DecideRevised
  \/ BuildPhase1Tabular
  \/ TabularEngineStep
  \/ Phase1DecideTabular
  \/ FormatFinalSolution

Spec == Init /\ [][Next]_vars

(***************************************************************************)
(* The solver constructed directly on a problem descriptor (the dictionary *)
(* Simplex.__init__ takes), with no interpretation info.  The descriptors  *)
(* are larger problems than the model files above: degenerate vertices,    *)
(* ties in both pivot choices, all three relations, and E. M. L. Beale's   *)
(* problem, on which the largest-coefficient rule cycles.                  *)
(***************************************************************************)
Q(num, den) == Rat(num, den)

\* max 3/4 x1 - 20 x2 + 1/2 x3 - 6 x4
BealeCycling ==
  [c |-> <<Q(3, 4), Float(-20), Q(1, 2), Float(-6)>>,
   A |-> << <<Q(1, 4), Float(-8), Float(-1), Float(9)>>,
            <<Q(1, 2), Float(-12), Q(-1, 2), Float(3)>>,
            <<Zero, Zero, One, Zero>> >>,
   b |-> <<Zero, Zero, One>>,
   signs |-> <<"<=", "<=", "<=">>,
   was_min |-> FALSE]

\* max x1 + x2: equal reduced costs, equal ratios, a degenerate optimum
TiedPivots ==
  [c |-> <<One, One>>,
   A |-> << <<One, One>>, <<One, Zero>>, <<Zero, One>> >>,
   b |-> <<One, One, One>>,
   signs |-> <<"<=", "<=", "<=">>,
   was_min |-> FALSE]

\* max 2 x1 + 3 x2 with a <=, a >= and an = row
ThreeRelations ==
  [c |-> <<Float(2), Float(3)>>,
   A |-> << <<One, One>>, <<One, Zero>>, <<One, Float(-1)>> >>,
   b |-> <<Float(4), One, Zero>>,
   signs |-> <<"<=", ">=", "=">>,
   was_min |-> FALSE]

\* min x1 - x2 (c already negated) with a negative right-hand side
NegativeRhs ==
  [c |-> <<Float(-1), One>>,
   A |-> << <<Float(-1), Float(-1)>>, <<One, Float(2)>> >>,
   b |-> <<Float(-1), Float(6)>>,
   signs |-> <<"<=", "<=">>,
   was_min |-> TRUE]

\* max x1 + x2 with nothing to stop x2
OpenRay ==
  [c |-> <<One, One>>,
   A |-> << <<One, Float(-1)>>, <<One, Zero>> >>,
   b |-> <<One, Float(2)>>,
   signs |-> <<"<=", "<=">>,
   was_min |-> FALSE]

\* max x1 with x1 <= 1 and 1e-9 x1 <= 0: a positive coefficient that is not
\* above the tolerance of the ratio test
TinyEntry ==
  [c |-> <<One>>,
   A |-> << <<One>>, <<Q(1, TolDen)>> >>,
   b |-> <<One, Zero>>,
   signs |-> <<"<=", "<=">>,
   was_min |-> FALSE]

Descriptors ==
  {BealeCycling, TiedPivots, ThreeRelations, NegativeRhs, OpenRay, TinyEntry}

\* no model file stands behind a descriptor built by hand
NoFile(d) ==
  [is_min |-> d.was_min, obj |-> <<>>, rows |-> <<>>, rhs |-> <<>>,
   signs |-> d.signs, domain |-> <<>>]

\* Simplex.__init__ on a descriptor
DescriptorInit ==
  \E d \in Descriptors :
    /\ txt = NoFile(d)
    /\ c_parser_vars = d.c
    /\ A_parser_vars = d.A
    /\ b_orig = d.b
    /\ signs = d.signs
    /\ was_min = d.was_min
    /\ interpretation_info = None
    /\ A = <<>>
    /\ c = <<>>
    /\ b = <<>>
    /\ num_vars = 0
    /\ pc = "idle"
    /\ method = "none"
    /\ A_phase = <<>>
    /\ c_phase = <<>>
    /\ basic_indices = <<>>
    /\ artificial_indices = <<>>
    /\ tableau = <<>>
    /\ iter = 0
    /\ result = NoResult
    /\ result_phase1 = NoResult
    /\ entry_signs = d.signs
    /\ calls = <<>>

DescriptorSpec == DescriptorInit /\ [][Next]_vars

(***************************************************************************)
(* What the model file itself says, independently of the solver.  Every    *)
(* model of Models has one original variable x1, so its feasible set is a  *)
(* closed interval whose finite ends are 0 or some rhs[i] / rows[i][1]:    *)
(* it is non-empty exactly when one of these candidate points satisfies    *)
(* all constraints, and the objective is unbounded on it exactly when the  *)
(* interval extends without end in an improving direction.                 *)
(***************************************************************************)
Candidates(model) ==
  {Zero} \cup {Rat(model.rhs[i], model.rows[i][1]) :
                 i \in {k \in 1..Len(model.rows) : model.rows[k][1] # 0}}

InDomain(t, x) ==
  \/ t = "free"
  \/ t = "non_negative" /\ RLe(Zero, x)
  \/ t = "negative" /\ RLe(x, Zero)

Holds(lhs, rel, bound) ==
  \/ rel = "<=" /\ RLe(lhs, bound)
  \/ rel = ">=" /\ RLe(bound, lhs)
  \/ rel = "=" /\ lhs = bound

\* x1 = x satisfies the domain declaration and every constraint as written
Satisfies(model, x) ==
  /\ InDomain(model.domain[1], x)
  /\ \A i \in 1..Len(model.rows) :
       Holds(RMul(Float(model.rows[i][1]), x), model.signs[i], Float(model.rhs[i]))

Feasible(model) == \E x \in Candidates(model) : Satisfies(model, x)

\* moving x1 in direction d stays feasible for ever and improves the objective
ImprovingRay(model, d) ==
  /\ InDomain(model.domain[1], Float(d))
  /\ \A i \in 1..Len(model.rows) :
       Holds(Float(model.rows[i][1] * d), model.signs[i], Zero)
  /\ IF model.is_min THEN model.obj[1] * d < 0 ELSE model.obj[1] * d > 0

FeasibleBounded(model) ==
  Feasible(model) /\ ~\E d \in {-1, 1} : ImprovingRay(model, d)

\* the objective of the model file at x1 = x[1]
Objective(model, x) == RMul(Float(model.obj[1]), x[1])

\* call k was made on the descriptor as the parser produced it
Fresh(k) == calls[k].signs_in = txt.signs
ReturnedOptimal(k) == calls[k].outcome = "return" /\ calls[k].ret.status = "optimal"
SameValue(x, y) == ~GtInv(RAbs(RSub(x, y)), 1000000)

\* C1: for a feasible bounded model, a revised call and a tabular call on
\* the descriptor both return 'optimal', with the same objective value
\* within 1e-6.
C1_EnginesAgree ==
  \A i, j \in 1..Len(calls) :
    (/\ calls[i].method = "revised" /\ calls[j].method = "tabular"
     /\ Fresh(i) /\ Fresh(j)
     /\ FeasibleBounded(txt))
    => /\ ReturnedOptimal(i)
       /\ ReturnedOptimal(j)
       /\ SameValue(calls[i].ret.value, calls[j].ret.value)

\* C2: whenever the engines end 'optimal' and the solver holds the
\* interpretation info, solve returns an 'optimal' result whose value is the
\* objective of the model file at the returned original-variable values.
C2_ValueBySubstitution ==
  \A k \in 1..Len(calls) :
    (calls[k].raw.status = "optimal" /\ interpretation_info # None)
    => /\ ReturnedOptimal(k)
       /\ calls[k].ret.value = Objective(txt, calls[k].ret.solution)

\* the matrix whose columns the Phase-1 basis of the running call indexes
Phase1Matrix == IF method = "revised" THEN A_phase ELSE tableau

\* C3: when Phase 1 starts, a <= row has its own slack column (coefficient
\* +1 in that row) as basic variable and a >= or = row its own artificial
\* column, so the basis sub-matrix is the identity.
C3_InitialBasisIdentity ==
  (pc = "phase1" /\ iter = 0)
  => \A i \in 1..m :
       /\ signs[i] = "<=" => /\ basic_indices[i] > n_parser_vars
                             /\ basic_indices[i] <= num_vars
       /\ signs[i] # "<=" => basic_indices[i] > num_vars
       /\ \A r \in 1..m :
            Phase1Matrix[r][basic_indices[i]] = IF r = i THEN One ELSE Zero

\* C4: solve (called with a method it knows) leaves the relation list of the
\* descriptor as it was, and a second call with the same method returns what
\* the first returned.
C4_NoStateAcrossCalls ==
  (\A k \in 1..Len(calls) : calls[k].method \in {"revised", "tabular"})
  => /\ pc = "idle" => signs = txt.signs
     /\ \A i, j \in 1..Len(calls) :
          calls[i].method = calls[j].method
          => /\ calls[i].outcome = calls[j].outcome
             /\ calls[i].ret.status = calls[j].ret.status
             /\ calls[i].ret.value = calls[j].ret.value

\* Phase 1 of call k ended with optimum zero and an artificial column basic
RedundantAtPhase1(k) ==
  /\ calls[k].phase1.status = "optimal"
  /\ ~GtTol(RAbs(calls[k].phase1.value))
  /\ artificial_in_basis(calls[k].phase1.final_basis_indices, num_vars)

\* C5: when Phase 1 ends with optimum zero and an artificial variable still
\* basic, solve returns the redundant-constraint status, with either method.
C5_RedundantReported ==
  \A k \in 1..Len(calls) :
    RedundantAtPhase1(k)
    => /\ calls[k].outcome = "return"
       /\ calls[k].ret.status = "error_redundant_constraint"

EngineFailures ==
  {"error_singular_matrix", "error_numerical_instability", "max_iterations_reached"}

\* C6: a failure status of the engine run inside Phase 1 is the status solve
\* returns.
C6_FailureVerbatim ==
  \A k \in 1..Len(calls) :
    calls[k].phase1.status \in EngineFailures
    => /\ calls[k].outcome = "return"
       /\ calls[k].ret.status = calls[k].phase1.status

\* C7: solve returns 'infeasible' exactly when the model has no feasible
\* point, and only after a Phase 1 whose optimum is not within 1e-9 of zero.
C7_InfeasibleExactly ==
  \A k \in 1..Len(calls) :
    (calls[k].method \in {"revised", "tabular"} /\ Fresh(k))
    => /\ (calls[k].outcome = "return" /\ calls[k].ret.status = "infeasible")
            <=> ~Feasible(txt)
       /\ calls[k].ret.status = "infeasible"
            => /\ calls[k].phase1.status = "optimal"
               /\ GtTol(RAbs(calls[k].phase1.value))

\* C8: a call with an unknown method raises the configuration error and
\* leaves every field of the solver and of the descriptor as it was: the
\* relations as the call found them, and the derived A, c, b and num_vars
\* still unset when it is the first call.
C8_InvalidMethodFailsFast ==
  \A k \in 1..Len(calls) :
    calls[k].method \notin {"revised", "tabular"}
    => /\ calls[k].outcome = "ValueError"
       /\ (k = Len(calls) /\ pc = "idle") => signs = calls[k].signs_in
       /\ (k = 1 /\ Len(calls) = 1 /\ pc = "idle")
            => A = <<>> /\ c = <<>> /\ b = <<>> /\ num_vars = 0

\* C9: an 'optimal' result of a minimization problem carries the negation of
\* the value the engine maximized, with or without interpretation info.
C9_MinimizationConvention ==
  \A k \in 1..Len(calls) :
    (ReturnedOptimal(k) /\ was_min)
    => calls[k].ret.value = RNeg(calls[k].raw.value)

\* C10: once the Standardizer has run, every b[i] is >= 0; a row that had
\* b[i] < 0 has b[i] and its row of A negated and its relation flipped
\* (<= to >=, >= to <=, = kept), any other row is as given.
C10_StandardizedRhs ==
  b # <<>>
  => \A i \in 1..m :
       /\ RLe(Zero, b[i])
       /\ IF RLt(b_orig[i], Zero)
            THEN /\ b[i] = RNeg(b_orig[i])
                 /\ \A j \in 1..n_parser_vars : A[i][j] = RNeg(A_parser_vars[i][j])
                 /\ entry_signs[i] = "<=" => signs[i] = ">="
                 /\ entry_signs[i] = ">=" => signs[i] = "<="
                 /\ entry_signs[i] = "=" => signs[i] = "="
            ELSE /\ b[i] = b_orig[i]
                 /\ \A j \in 1..n_parser_vars : A[i][j] = A_parser_vars[i][j]
                 /\ signs[i] = entry_signs[i]

\* the Standardizer has just negated a <= row and a >= row
C10_Witness ==
  /\ pc = "dispatch"
  /\ \E i, k \in 1..m :
       /\ RLt(b_orig[i], Zero) /\ entry_signs[i] = "<=" /\ signs[i] = ">="
       /\ RLt(b_orig[k], Zero) /\ entry_signs[k] = ">=" /\ signs[k] = "<="

\* C11: the original-variable values of any 'optimal' result satisfy every
\* constraint of the model file as written (original coefficients, bounds
\* and relations) and the sign restriction of each variable.
C11_SolutionFeasible ==
  \A k \in 1..Len(calls) :
    ReturnedOptimal(k) => Satisfies(txt, calls[k].ret.solution[1])

\* the same for the calls made on the descriptor as the parser produced it
C11_FreshSolutionFeasible ==
  \A k \in 1..Len(calls) :
    (ReturnedOptimal(k) /\ Fresh(k)) => Satisfies(txt, calls[k].ret.solution[1])

\* the model file has a feasible point and an improving ray
FeasibleUnbounded(model) ==
  Feasible(model) /\ \E d \in {-1, 1} : ImprovingRay(model, d)

\* a call on the descriptor as parsed, for a feasible model whose objective
\* can be improved without limit, returns 'unbounded'
UnboundedReported(meths) ==
  \A k \in 1..Len(calls) :
    (calls[k].method \in meths /\ Fresh(k) /\ FeasibleUnbounded(txt))
    => calls[k].outcome = "return" /\ calls[k].ret.status = "unbounded"

\* the running engine is about to make a loop pass that reaches the choice
\* of the entering column: the cap is not exhausted, the basis matrix has an
\* inverse and some reduced cost is above 1e-9
ReachesPivotChoice ==
  /\ pc \in {"phase1", "phase2"}
  /\ IF method = "revised"
       THEN /\ iter < iteration_limit(Len(A_phase), Len(c_phase))
            /\ Det(Columns(A_phase, basic_indices)) # Zero
            /\ ~AllLeTol(revised_cj_zj(A_phase, c_phase, basic_indices))
       ELSE /\ iter < iteration_limit(Len(tableau), Len(tableau[1]) - 1)
            /\ ~AllLeTol(tabular_cj_zj(tableau, basic_indices, c_phase))

\* the entering column of that pass in the current basis representation
EnteringDirection ==
  IF method = "revised"
    THEN revised_direction(A_phase, c_phase, basic_indices)
    ELSE Column(tableau, entering_col(tableau, basic_indices, c_phase))

\* the result the running engine stops with in this pass, if it stops
PassStatus ==
  IF method = "revised"
    THEN revised_pass(A_phase, b, c_phase, basic_indices, iter).result.status
    ELSE tabular_pass(tableau, basic_indices, c_phase, iter).result.status

\* an engine stops with 'unbounded' exactly when the entering column it
\* chose has no component above 1e-9
UnboundedTest ==
  pc \in {"phase1", "phase2"}
  => (PassStatus = "unbounded"
        <=> (ReachesPivotChoice
             /\ \A i \in 1..Len(EnteringDirection) : ~GtTol(EnteringDirection[i])))

\* C12: for a feasible model whose objective can be improved without limit
\* solve returns 'unbounded' with both methods, and an engine stops with
\* 'unbounded' exactly when the chosen entering column has no component
\* greater than 1e-9 in the current basis representation.
C12_UnboundedDetection ==
  UnboundedReported({"revised", "tabular"}) /\ UnboundedTest

\* the part of C12 the tabular method alone is held to
C12_TabularUnbounded == UnboundedReported({"tabular"})

\* rows x columns x 2 for the problem the running engine was handed: the
\* cost vector has one entry per column
EngineCap == m * Len(c_phase) * 2

\* C13: an engine run makes at most rows x columns x 2 pivots (artificial
\* columns counted in Phase 1); it stops earlier with another status or
\* stops with 'max_iterations_reached' in the pass after the last pivot the
\* cap allows, and with that status at no other time.
C13_IterationCap ==
  pc \in {"phase1", "phase2"}
  => /\ iter <= EngineCap
     /\ Len(c_phase) = IF pc = "phase1"
                         THEN num_vars + Cardinality(artificial_rows(signs))
                         ELSE num_vars
     /\ PassStatus = "max_iterations_reached" <=> iter = EngineCap


\* the tabular engine has used up its cap on the cycling problem and stopped
\* with 'max_iterations_reached', as the revised engine did in the call
\* before
C13_Witness ==
  /\ pc = "format"
  /\ method = "tabular"
  /\ result.status = "max_iterations_reached"
  /\ iter = EngineCap
  /\ \E k \in 1..Len(calls) :
       /\ calls[k].method = "revised"
       /\ calls[k].ret.status = "max_iterations_reached"

\* the running engine is about to pivot: its next loop pass does not stop
Pivoting ==
  /\ pc \in {"phase1", "phase2"}
  /\ IF method = "revised"
       THEN ~revised_pass(A_phase, b, c_phase, basic_indices, iter).done
       ELSE ~tabular_pass(tableau, basic_indices, c_phase, iter).done

\* the basis that pass leaves
NextBasis ==
  IF method = "revised"
    THEN revised_pass(A_phase, b, c_phase, basic_indices, iter).basis
    ELSE tabular_pass(tableau, basic_indices, c_phase, iter).basis

\* the row in which the basis next differs from the one held now
ChangedRow(next) == CHOOSE i \in 1..m : next[i] # basic_indices[i]

\* the row whose basic variable the pass replaces, and the column entering
PivotRow == ChangedRow(NextBasis)
PivotCol == NextBasis[PivotRow]

\* B^-1 [A | b] for the problem (Am, bv) and a basis of it
RepresentedBy(Am, bv, basis) ==
  LET width == Len(Am[1])
  IN  Only({Vec(Len(Am), [i \in 1..Len(Am) |->
              Vec(width + 1, [j \in 1..(width + 1) |->
                IF j <= width THEN Dot(B_inv[i], Column(Am, j)) ELSE Dot(B_inv[i], bv)])]) :
              B_inv \in {inv(Columns(Am, basis))}})

\* columns of the problem in the current basis representation, the
\* right-hand side last: B^-1 [A | b] for the revised engine, the tableau
\* itself for the tabular engine
Represented ==
  IF method = "revised" THEN RepresentedBy(A_phase, b, basic_indices) ELSE tableau

\* c_j - z_j of column j in the representation rep
ReducedCost(rep, j) ==
  RSub(c_phase[j],
       SumSeq(Vec(m, [i \in 1..m |-> RMul(c_phase[basic_indices[i]], rep[i][j])])))

NonBasic == (1..Len(c_phase)) \ Range(basic_indices)
BasicValue(rep, i) == rep[i][Len(c_phase) + 1]
Ratio(rep, i, j) == RDiv(BasicValue(rep, i), rep[i][j])

\* the entering column col is the lowest-numbered non-basic column among
\* those with the largest reduced cost
EnteringRule(rep, col) ==
  /\ col \in NonBasic
  /\ \A j \in NonBasic : RLe(ReducedCost(rep, j), ReducedCost(rep, col))
  /\ \A j \in NonBasic : j < col => RLt(ReducedCost(rep, j), ReducedCost(rep, col))

\* the leaving row is the first among the rows with an entry above 1e-9 in
\* the entering column that minimize basic value over entry
LeavingRule(rep, row, col) ==
  /\ GtTol(rep[row][col])
  /\ \A i \in 1..m :
       GtTol(rep[i][col])
       => /\ RLe(Ratio(rep, row, col), Ratio(rep, i, col))
          /\ i < row => RLt(Ratio(rep, row, col), Ratio(rep, i, col))

\* the basis the other engine leaves behind when it is put on the same
\* problem, in the representation rep, with the same basis
OtherEngineBasis(rep) ==
  IF method = "revised"
    THEN tabular_pass(rep, basic_indices, c_phase, iter).basis
    ELSE LET P == IF pc = "phase1" THEN A_phase1(A, signs) ELSE A
         IN  revised_pass(P, b, c_phase, basic_indices, iter).basis

\* C14: in every pass that pivots, the entering column is the non-basic
\* column with the largest reduced cost (lowest index on ties), the leaving
\* row is the one minimizing basic value over entry among rows with entry
\* above 1e-9 (smallest row on ties), exactly one row of the basis changes,
\* and the other engine makes the same choice from the same basis.
C14_DeterministicPivot ==
  Pivoting
  => \A rep \in {Represented}, next \in {NextBasis} :
       \A row \in {ChangedRow(next)} :
         /\ \A i \in 1..m : i # row => next[i] = basic_indices[i]
         /\ EnteringRule(rep, next[row])
         /\ LeavingRule(rep, row, next[row])
         /\ OtherEngineBasis(rep) = next

\* a pass that pivots with a tie in both choices: another non-basic column
\* has the same reduced cost and another row the same ratio
C14_Witness ==
  /\ Pivoting
  /\ \E rep \in {Represented}, row \in {PivotRow}, col \in {PivotCol} :
       /\ \E j \in NonBasic : j # col /\ ReducedCost(rep, j) = ReducedCost(rep, col)
       /\ \E i \in 1..m :
            /\ i # row
            /\ GtTol(rep[i][col])
            /\ Ratio(rep, i, col) = Ratio(rep, row, col)

\* the tabular engine is at its ratio test: the pass reached the choice of
\* the entering column and the unboundedness test found an entry above 1e-9
TabularAtRatioTest ==
  /\ method = "tabular"
  /\ ReachesPivotChoice
  /\ \E i \in 1..m : GtTol(tableau[i][entering_col(tableau, basic_indices, c_phase)])

NumericalInstability(res) == res.status = "error_numerical_instability"

\* C15: the tabular engine never ends with the numerical-instability status:
\* at every ratio test the row selected has an entry above 1e-9 in the
\* entering column, so the pass pivots on it (no division by zero) and no
\* call ever carries that status.
C15_InstabilityUnreachable ==
  /\ ~NumericalInstability(result)
  /\ \A k \in 1..Len(calls) :
       /\ ~NumericalInstability(calls[k].phase1)
       /\ ~NumericalInstability(calls[k].raw)
       /\ ~NumericalInstability(calls[k].ret)
  /\ TabularAtRatioTest
     => /\ Pivoting
        /\ PivotCol = entering_col(tableau, basic_indices, c_phase)
        /\ GtTol(tableau[PivotRow][PivotCol])
        /\ tableau[PivotRow][PivotCol] # Zero

\* a ratio test of the tabular engine in which a row the filter leaves out
\* would have won: its entry in the entering column is negative and its
\* basic value positive
C15_Witness ==
  /\ TabularAtRatioTest
  /\ \E row \in {PivotRow}, col \in {PivotCol} :
       \E i \in 1..m : /\ RLt(tableau[i][col], Zero)
                       /\ RLt(Zero, BasicValue(tableau, i))
                       /\ RLt(Ratio(tableau, i, col), Ratio(tableau, row, col))

\* the representation the pass that pivots leaves behind
NextRepresented ==
  IF method = "revised"
    THEN Only({RepresentedBy(A_phase, b, next) : next \in {NextBasis}})
    ELSE tabular_pass(tableau, basic_indices, c_phase, iter).tableau

\* m pairwise distinct columns
DistinctColumns(basis) == Len(basis) = m /\ Cardinality(Range(basis)) = m

\* every basic value (the right-hand-side entry of each row) is >= 0
PrimalFeasible(rep) == \A i \in 1..m : RLe(Zero, rep[i][Len(rep[i])])

\* the objective c_B . x_B of a basis and its representation
ObjectiveOf(rep, basis) ==
  SumSeq(Vec(m, [i \in 1..m |-> RMul(c_phase[basis[i]], rep[i][Len(rep[i])])]))

\* the problem the running engine was handed: in Phase 1 the standard form
\* with the artificial columns, in Phase 2 the standard form
ProblemMatrix == IF pc = "phase1" THEN A_phase1(A, signs) ELSE A

\* the basis the running engine was started from; Phase 2 starts from the
\* final basis of Phase 1 (from the slack basis when the revised method
\* skips Phase 1)
StartBasis ==
  IF pc = "phase1"
    THEN IF method = "revised"
           THEN initial_base_phase1(n_parser_vars, num_vars, signs)
           ELSE phase1_basic_indices(n_parser_vars, num_vars, signs)
  ELSE IF method = "revised" /\ artificial_rows(signs) = {}
    THEN slack_indices(n_parser_vars, signs)
  ELSE result_phase1.final_basis_indices

\* the engine was started from m pairwise distinct columns with basic
\* values >= 0
StartedFeasible ==
  /\ pc \in {"phase1", "phase2"}
  /\ DistinctColumns(StartBasis)
  /\ Det(Columns(ProblemMatrix, StartBasis)) # Zero
  /\ PrimalFeasible(RepresentedBy(ProblemMatrix, b, StartBasis))

\* the basis now is made of m pairwise distinct columns and its basic
\* values are >= 0
FeasibleNow ==
  /\ DistinctColumns(basic_indices)
  /\ method = "revised" => Det(Columns(A_phase, basic_indices)) # Zero
  /\ PrimalFeasible(Represented)

\* C16 as stated: an engine started from m pairwise distinct columns with
\* basic values >= 0 has, after any number of pivots, a basis of m pairwise
\* distinct columns with basic values >= 0 and an objective not below the
\* one it started with, and each pivot brings in a column that is not basic
\* and does not decrease the objective.
C16_FeasibilityKept ==
  StartedFeasible
  => /\ FeasibleNow
     /\ RLe(ObjectiveOf(RepresentedBy(ProblemMatrix, b, StartBasis), StartBasis),
            ObjectiveOf(Represented, basic_indices))
     /\ Pivoting
        => /\ PivotCol \notin Range(basic_indices)
           /\ RLe(ObjectiveOf(Represented, basic_indices),
                  ObjectiveOf(NextRepresented, NextBasis))

\* the entering column has no entry that is positive and not above 1e-9:
\* the ratio test leaves no row with a positive entry out
NoTinyEntry(rep, col) ==
  \A i \in 1..m : RLe(rep[i][col], Zero) \/ GtTol(rep[i][col])

\* C16, amended: a pivot made from a basis of m pairwise distinct columns
\* with basic values >= 0 brings in a column that is not basic, leaves m
\* pairwise distinct columns and does not decrease the objective; the basic
\* values stay >= 0 when no entry of the entering column is positive and at
\* most 1e-9.
C16_PivotKeepsFeasibility ==
  (Pivoting /\ FeasibleNow)
  => \A rep \in {Represented}, next \in {NextBasis}, after \in {NextRepresented} :
       \A col \in {next[ChangedRow(next)]} :
         /\ col \notin Range(basic_indices)
         /\ DistinctColumns(next)
         /\ RLe(ObjectiveOf(rep, basic_indices), ObjectiveOf(after, next))
         /\ NoTinyEntry(rep, col) => PrimalFeasible(after)

\* a degenerate pivot and a pivot that raises the objective have been made
\* from feasible bases: the engine is about to pivot again, from a vertex
\* the objective did not move to
C16_Witness ==
  /\ Pivoting
  /\ FeasibleNow
  /\ StartedFeasible
  /\ iter >= 2
  /\ \E rep \in {Represented} :
       /\ \E i \in 1..m : BasicValue(rep, i) = Zero
       /\ ObjectiveOf(NextRepresented, NextBasis) = ObjectiveOf(rep, basic_indices)

====
